---- MODULE Spec2Model ----
(***************************************************************************)
(* Route state of the Flex Route Optimizer web app: the App component      *)
(* (route, appStatus, error, screenshots, saved route, the extraction and  *)
(* optimize calls in flight) and the RouteDisplay component (delete and    *)
(* edit dialogs, drag source).  Indices are 0-based as in the source; a    *)
(* nullable value is the empty set (Null) or a singleton (Some(v)).        *)
(***************************************************************************)
EXTENDS Integers, Sequences, FiniteSets, TLC

VARIABLES
    route,              \* App: RouteStop[] | null
    appStatus,          \* App: 'idle' | 'processing' | 'optimizing'
    error,              \* App: string | null; "error" stands for any message
    screenshotFiles,    \* App: number of selected screenshot files
    savedRoute,         \* localStorage 'flex-optimizer-saved-route': the stored text
    hasSavedRoute,      \* App: boolean
    extracting,         \* handleProcessRoute calls awaiting Promise.all
    optimizing,         \* handleAiOptimize calls awaiting geolocation / the provider
    stopToDeleteIndex,  \* RouteDisplay: number | null
    editingStop,        \* RouteDisplay: RouteStop | null
    editingStopIndex,   \* RouteDisplay: number | null
    draggedItemIndex,   \* RouteDisplay: useRef<number | null>
    threw,              \* the last handler ended with an uncaught exception
    crashed,            \* a render threw: React unmounted the tree
    googleMapsLinks,    \* RouteDisplay: useMemo(() => generateGoogleMapsLinks(route))
    summary,            \* App: RouteSummary | null
    summaryCalls,       \* getRouteSummary calls awaiting the provider
    trafficInfo,        \* App: TrafficInfo | null
    trafficCalls,       \* number of getLiveTraffic calls awaiting the provider
    intervals,          \* number of active window.setInterval(fetchTraffic) timers
    user,               \* App: { tier: 'Free' | 'Pro' }
    routeCount,         \* App: routes processed by a Free user
    isSubModalOpen      \* App: boolean

appVars   == <<route, appStatus, error, screenshotFiles, savedRoute, hasSavedRoute>>
callVars  == <<extracting, optimizing>>
localVars == <<stopToDeleteIndex, editingStop, editingStopIndex, draggedItemIndex>>
effectVars == <<summary, summaryCalls, trafficInfo, trafficCalls, intervals>>
quotaVars == <<user, routeCount, isSubModalOpen>>
vars      == <<route, appStatus, error, screenshotFiles, savedRoute, hasSavedRoute, extracting,
               optimizing, stopToDeleteIndex, editingStop, editingStopIndex,
               draggedItemIndex, threw, crashed, googleMapsLinks, summary,
               summaryCalls, trafficInfo, trafficCalls, intervals, user, routeCount,
               isSubModalOpen>>

(***************************************************************************)
(* Bounds                                                                  *)
(***************************************************************************)
MaxStopNum    == 2   \* stop numbers printed in the screenshots: 1..MaxStopNum
MaxFiles      == 2   \* screenshots selected at a time
MaxPerShot    == 1   \* raw stops extracted from one screenshot
MaxResp       == 2   \* length of an optimize response
MaxOptimizing == 1   \* optimize calls in flight
MaxExtracting == 2   \* extraction batches in flight
MaxLinkStops  == 41  \* stops of a long route (SpecLinks)
MaxSummaryCalls == 2 \* getRouteSummary calls in flight
MaxTrafficCalls == 1 \* getLiveTraffic calls in flight
MaxMobileStops == 3  \* stops of the route shown by the mobile app

Null    == {}
Some(v) == {v}
Val(o)  == CHOOSE v \in o : TRUE

Min(S) == CHOOSE x \in S : \A y \in S : x <= y

SeqsUpTo(S, n) == UNION {[1..k -> S] : k \in 0..n}

RemoveAt(s, i) == [k \in 1..(Len(s) - 1) |-> IF k < i THEN s[k] ELSE s[k + 1]]

InsertAt(s, i, e) ==
    [k \in 1..(Len(s) + 1) |-> IF k < i THEN s[k] ELSE IF k = i THEN e ELSE s[k - 1]]

(***************************************************************************)
(* Stops.  street stands for the extracted fields (street, city, state,    *)
(* zip, tba, ...), label for the fields handleFieldChange edits,           *)
(* isPriority for the fields of the Edit Details dialog (FALSE is absent   *)
(* or false).  status is "absent" on an extracted stop.                    *)
(***************************************************************************)
Streets == {"A St", "B St"}
Labels  == {"", "note"}

RawStop(n, st) ==
    [originalStopNumber |-> n, street |-> st, label |-> "", isPriority |-> FALSE,
     type |-> "absent", status |-> "absent", isCurrentStop |-> FALSE]

\* an array hole (sparse array) and an undefined element
Hole      == [RawStop(0, "") EXCEPT !.type = "hole"]
Undefined == [RawStop(0, "") EXCEPT !.type = "undefined"]

\* the null of a parsed JSON text: reading a property of it throws
JsonNull == [RawStop(0, "") EXCEPT !.type = "null"]

\* the object {} of a parsed JSON text: every field is absent
\* (originalStopNumber -1)
EmptyObject == [RawStop(0 - 1, "undefined") EXCEPT !.type = "absent"]

currentLocationStop ==
    [originalStopNumber |-> 0, street |-> "Your Current Location", label |-> "",
     isPriority |-> FALSE, type |-> "location", status |-> "delivered",
     isCurrentStop |-> FALSE]

IsStop(s) == s.type \notin {"hole", "undefined"}

\* mutant: the location stop is not filtered out
DeliveryStopsMutant(r) == SelectSeq(r, IsStop)

\* route.filter(s => s.type !== 'location'): filter skips holes
DeliveryStops(r) == SelectSeq(r, LAMBDA s : IsStop(s) /\ s.type # "location")

\* route.find(s => s.type === 'location')
LocationStop(r) ==
    LET idx == {i \in 1..Len(r) : r[i].type = "location"}
    IN  IF idx = {} THEN Null ELSE Some(r[Min(idx)])

\* the spread [...a] turns the holes of a into undefined elements
Spread(a) == [i \in 1..Len(a) |-> IF a[i] = Hole THEN Undefined ELSE a[i]]

\* mutant: the location stop is put after the delivery stops
NewRouteMutant(loc, newDeliveryStops) ==
    IF loc # Null THEN Spread(newDeliveryStops) \o <<Val(loc)>> ELSE newDeliveryStops

\* locationStop ? [locationStop, ...newDeliveryStops] : newDeliveryStops
NewRoute(loc, newDeliveryStops) ==
    IF loc # Null THEN <<Val(loc)>> \o Spread(newDeliveryStops) ELSE newDeliveryStops

(***************************************************************************)
(* updateRouteAndCurrentStop: one pass over newRoute with the flag         *)
(* currentStopFound; map skips holes and throws on an undefined element.   *)
(***************************************************************************)
\* mutant: currentStopFound is never set
RECURSIVE MarkCurrentMutant(_, _)
MarkCurrentMutant(newRoute, currentStopFound) ==
    IF newRoute = <<>> THEN <<>>
    ELSE LET stop == Head(newRoute)
             isCompleted == stop.status # "absent" /\ stop.status # "pending"
         IN  IF stop = Hole
                 THEN <<Hole>> \o MarkCurrentMutant(Tail(newRoute), currentStopFound)
             ELSE IF stop.type = "location" \/ isCompleted
                 THEN <<[stop EXCEPT !.isCurrentStop = FALSE]>>
                          \o MarkCurrentMutant(Tail(newRoute), currentStopFound)
             ELSE <<[stop EXCEPT !.isCurrentStop = ~currentStopFound]>>
                          \o MarkCurrentMutant(Tail(newRoute), currentStopFound)

RECURSIVE MarkCurrent(_, _)
MarkCurrent(newRoute, currentStopFound) ==
    IF newRoute = <<>> THEN <<>>
    ELSE LET stop == Head(newRoute)
             isCompleted == stop.status # "absent" /\ stop.status # "pending"
         IN  IF stop = Hole
                 THEN <<Hole>> \o MarkCurrent(Tail(newRoute), currentStopFound)
             ELSE IF stop.type = "location" \/ isCompleted
                 THEN <<[stop EXCEPT !.isCurrentStop = FALSE]>>
                          \o MarkCurrent(Tail(newRoute), currentStopFound)
             ELSE IF ~currentStopFound
                 THEN <<[stop EXCEPT !.isCurrentStop = TRUE]>>
                          \o MarkCurrent(Tail(newRoute), TRUE)
             ELSE <<[stop EXCEPT !.isCurrentStop = FALSE]>>
                          \o MarkCurrent(Tail(newRoute), currentStopFound)

\* the result of a handler: did it throw, and the route state it leaves
Thrown(r)  == [threw |-> TRUE, route |-> r]
Done(r)    == [threw |-> FALSE, route |-> r]

updateRouteAndCurrentStop(old, newRoute) ==
    IF newRoute = Null THEN Done(Null)
    ELSE IF \E i \in 1..Len(Val(newRoute)) : Val(newRoute)[i] \in {Undefined, JsonNull}
        THEN Thrown(old)
    ELSE Done(Some(MarkCurrent(Val(newRoute), FALSE)))

(***************************************************************************)
(* The stored snapshot.  A stored text is JSON text, with the value it     *)
(* denotes, or text that is no JSON.                                       *)
(***************************************************************************)
JsonArray(items) == [kind |-> "json", isArray |-> TRUE, items |-> items]

\* the text {}: JSON, not an array
JsonObject == [kind |-> "json", isArray |-> FALSE, items |-> <<>>]

\* text that JSON.parse rejects
NotJson == [kind |-> "not json", isArray |-> FALSE, items |-> <<>>]

\* JSON.stringify(route): a hole and an undefined element are written as
\* null; an absent field stays absent
JSONStringify(r) ==
    JsonArray([i \in 1..Len(r) |-> IF r[i] \in {Hole, Undefined} THEN JsonNull ELSE r[i]])

\* the try block of the mobile handleLoadRoute: the parsed array is handed
\* to setRoute as it is
LoadRouteMobile(old, savedRouteJSON) ==
    IF savedRouteJSON.kind # "json" THEN [ok |-> FALSE, route |-> old]
    ELSE IF ~(savedRouteJSON.isArray /\ Len(savedRouteJSON.items) > 0)
        THEN [ok |-> FALSE, route |-> old]
    ELSE [ok |-> TRUE, route |-> Some(savedRouteJSON.items)]

\* the try block of handleLoadRoute: JSON.parse throws on text that is no
\* JSON, the else branch throws unless the value is a non-empty array, and
\* updateRouteAndCurrentStop throws on a null element
LoadRoute(old, savedRouteJSON) ==
    IF savedRouteJSON.kind # "json" THEN [ok |-> FALSE, route |-> old]
    ELSE LET savedRoute_ == savedRouteJSON.items
         IN  IF ~(savedRouteJSON.isArray /\ Len(savedRoute_) > 0)
                 THEN [ok |-> FALSE, route |-> old]
             ELSE LET res == updateRouteAndCurrentStop(old, Some(savedRoute_))
                  IN  [ok |-> ~res.threw, route |-> res.route]

(***************************************************************************)
(* Ingestion: the merge of handleProcessRoute                              *)
(***************************************************************************)
\* allResults.flatMap(res => res.stops)
RECURSIVE FlatMapStops(_)
FlatMapStops(allResults) ==
    IF allResults = <<>> THEN <<>>
    ELSE Head(allResults).stops \o FlatMapStops(Tail(allResults))

HasNumber(stops, n) == \E i \in 1..Len(stops) : stops[i].originalStopNumber = n

\* mutant: set() always, so the last stop with a number replaces the first
RECURSIVE UniqueStopsMutant(_, _)
UniqueStopsMutant(allStops, kept) ==
    IF allStops = <<>> THEN kept
    ELSE IF HasNumber(kept, Head(allStops).originalStopNumber)
        THEN UniqueStopsMutant(Tail(allStops),
                 [i \in 1..Len(kept) |->
                     IF kept[i].originalStopNumber = Head(allStops).originalStopNumber
                         THEN Head(allStops) ELSE kept[i]])
    ELSE UniqueStopsMutant(Tail(allStops), Append(kept, Head(allStops)))

\* mutant: every stop is kept
UniqueStopsKeepAllMutant(allStops, kept) == kept \o allStops

\* uniqueStopsMap: a Map keeps insertion order; set() only when !has()
RECURSIVE UniqueStops(_, _)
UniqueStops(allStops, kept) ==
    IF allStops = <<>> THEN kept
    ELSE IF HasNumber(kept, Head(allStops).originalStopNumber)
        THEN UniqueStops(Tail(allStops), kept)
    ELSE UniqueStops(Tail(allStops), Append(kept, Head(allStops)))

\* Array.prototype.sort((a, b) => a.originalStopNumber - b.originalStopNumber):
\* stable, ascending
RECURSIVE InsertSorted(_, _)
InsertSorted(sorted, stop) ==
    IF sorted = <<>> THEN <<stop>>
    ELSE IF Head(sorted).originalStopNumber <= stop.originalStopNumber
        THEN <<Head(sorted)>> \o InsertSorted(Tail(sorted), stop)
    ELSE <<stop>> \o sorted

\* mutant: the list is left in insertion order
SortByStopNumberMutant(stops) == stops

RECURSIVE SortByStopNumber(_)
SortByStopNumber(stops) ==
    IF stops = <<>> THEN <<>>
    ELSE InsertSorted(SortByStopNumber(SubSeq(stops, 1, Len(stops) - 1)),
                      stops[Len(stops)])

\* lines 252-265: dedup, tag as delivery, sort
MergeStops(allResults) ==
    LET uniqueStops == UniqueStops(FlatMapStops(allResults), <<>>)
        addresses   == [i \in 1..Len(uniqueStops) |->
                            [uniqueStops[i] EXCEPT !.type = "delivery"]]
    IN  SortByStopNumber(addresses)

\* what processRouteScreenshot can settle with for one file
\* what processRouteScreenshot can settle with for one file, the block code
\* of the screenshot being one of codes
CodedResults(streets, codes) ==
    {[ok |-> FALSE, stops |-> <<>>, routeBlockCode |-> ""]} \cup
    {[ok |-> TRUE, stops |-> st, routeBlockCode |-> code] :
        st \in SeqsUpTo({RawStop(n, s) : n \in 1..MaxStopNum, s \in streets}, MaxPerShot),
        code \in codes}

\* the results of screenshots that show no block code
FileResults(streets) == CodedResults(streets, {""})

(***************************************************************************)
(* Navigation links.  A url is the record of its path and parameters; an   *)
(* address is the stop's street, which stands for street, city, state and  *)
(* zip.                                                                    *)
(***************************************************************************)
GOOGLE_MAPS_WAYPOINT_LIMIT == 20

\* the limit of the mobile RouteDisplay
MOBILE_GOOGLE_MAPS_WAYPOINT_LIMIT == 10

\* the escaped text of str
encodeURIComponent(str) == [escaped |-> str]

\* chunk.map(stop => encodeURIComponent(`${stop.street}, ...`))
EncodedAddresses(chunk) == [i \in 1..Len(chunk) |-> encodeURIComponent(chunk[i].street)]

\* a.slice(from, to) with 0 <= from
Slice(a, from, to) == SubSeq(a, from + 1, IF to > Len(a) THEN Len(a) ELSE to)

\* https://www.google.com/maps/search/?api=1&query=...
SearchUrl(encodedAddresses) ==
    [path |-> "maps/search", query |-> encodedAddresses[1]]

\* mutant: waypoints = encodedAddresses.slice(1)
DirUrlMutant(encodedAddresses) ==
    [path |-> "maps/dir",
     origin |-> encodedAddresses[1],
     destination |-> encodedAddresses[Len(encodedAddresses)],
     waypoints |-> Slice(encodedAddresses, 1, Len(encodedAddresses))]

\* https://www.google.com/maps/dir/?api=1&origin=...&destination=...&waypoints=...
\* with waypoints = encodedAddresses.slice(1, -1).join('|')
DirUrl(encodedAddresses) ==
    [path |-> "maps/dir",
     origin |-> encodedAddresses[1],
     destination |-> encodedAddresses[Len(encodedAddresses)],
     waypoints |-> Slice(encodedAddresses, 1, Len(encodedAddresses) - 1)]

\* 'Open in Google Maps'
SingleLabel == [text |-> "Open in Google Maps"]

\* mutant: the label counts from 0
RangeLabelMutant(from, to) ==
    [text |-> "Open Route (Stops from - to)", from |-> from - 1, to |-> to - 1]

\* `Open Route (Stops ${from} - ${to})`
RangeLabel(from, to) == [text |-> "Open Route (Stops from - to)", from |-> from, to |-> to]

\* mutant: the loop stops before a chunk that is not full
RECURSIVE ChunkLinksMutant(_, _, _)
ChunkLinksMutant(deliveryStops, i, limit) ==
    IF ~(i + limit <= Len(deliveryStops)) THEN <<>>
    ELSE LET chunk == Slice(deliveryStops, i, i + limit)
         IN  <<[label |-> RangeLabel(i + 1, i + Len(chunk)),
                url |-> DirUrl(EncodedAddresses(chunk))]>>
                 \o ChunkLinksMutant(deliveryStops, i + limit, limit)

\* the for loop of generateGoogleMapsLinks from i on
RECURSIVE ChunkLinks(_, _, _)
ChunkLinks(deliveryStops, i, limit) ==
    IF ~(i < Len(deliveryStops)) THEN <<>>
    ELSE LET chunk == Slice(deliveryStops, i, i + limit)
         IN  <<[label |-> RangeLabel(i + 1, i + Len(chunk)),
                url |-> DirUrl(EncodedAddresses(chunk))]>>
                 \o ChunkLinks(deliveryStops, i + limit, limit)

\* generateGoogleMapsLinks of the web RouteDisplay, for a waypoint limit
WebLinks(stops, limit) ==
    LET deliveryStops == DeliveryStops(stops)
    IN  IF Len(deliveryStops) = 0 THEN <<>>
        ELSE IF Len(deliveryStops) <= limit
            THEN IF Len(deliveryStops) = 1
                     THEN <<[label |-> SingleLabel,
                             url |-> SearchUrl(EncodedAddresses(deliveryStops))]>>
                     ELSE <<[label |-> SingleLabel,
                             url |-> DirUrl(EncodedAddresses(deliveryStops))]>>
        ELSE ChunkLinks(deliveryStops, 0, limit)

generateGoogleMapsLinks(stops) == WebLinks(stops, GOOGLE_MAPS_WAYPOINT_LIMIT)

\* createUrl of the mobile generateGoogleMapsLinks
createUrl(chunk) ==
    IF Len(chunk) = 1 THEN SearchUrl(EncodedAddresses(chunk))
    ELSE DirUrl(EncodedAddresses(chunk))

\* the for loop of the mobile generateGoogleMapsLinks from i on
RECURSIVE MobileChunkLinks(_, _, _)
MobileChunkLinks(deliveryStops, i, limit) ==
    IF ~(i < Len(deliveryStops)) THEN <<>>
    ELSE LET chunk == Slice(deliveryStops, i, i + limit)
         IN  <<[label |-> RangeLabel(i + 1, i + Len(chunk)), url |-> createUrl(chunk)]>>
                 \o MobileChunkLinks(deliveryStops, i + limit, limit)

\* generateGoogleMapsLinks of the mobile RouteDisplay, for a waypoint limit
MobileLinks(stops, limit) ==
    LET deliveryStops == DeliveryStops(stops)
    IN  IF Len(deliveryStops) = 0 THEN <<>>
        ELSE IF Len(deliveryStops) <= limit
            THEN <<[label |-> SingleLabel, url |-> createUrl(deliveryStops)]>>
        ELSE MobileChunkLinks(deliveryStops, 0, limit)

generateGoogleMapsLinksMobile(stops) ==
    MobileLinks(stops, MOBILE_GOOGLE_MAPS_WAYPOINT_LIMIT)

(***************************************************************************)
(* Rendering                                                               *)
(***************************************************************************)
\* {route && appStatus !== 'processing' && <RouteDisplay .../>}
Mounted(r, st) == r # Null /\ st # "processing"

\* RouteDisplay's render throws when route.find meets a hole before a
\* location stop, or when the delete dialog reads
\* deliveryStops[stopToDeleteIndex].street past the end of the list
RenderThrows(r, st, del) ==
    /\ Mounted(r, st)
    /\ \/ \E i \in 1..Len(Val(r)) :
              /\ Val(r)[i] = Hole
              /\ \A k \in 1..(i - 1) : Val(r)[k].type # "location"
       \/ del # Null /\ Val(del) >= Len(DeliveryStops(Val(r)))

\* RouteDisplay, when mounted, recomputes its links
View ==
    /\ crashed' = RenderThrows(route', appStatus', stopToDeleteIndex')
    /\ googleMapsLinks' = IF Mounted(route', appStatus')
                              THEN generateGoogleMapsLinks(Val(route'))
                              ELSE <<>>

(***************************************************************************)
(* The summary and the traffic effects of App.  They read route and write  *)
(* summary and trafficInfo only, so the specifications of the route leave  *)
(* them unobserved (summaryCalls = Unobserved); SpecEffects follows them.  *)
(***************************************************************************)
Unobserved == <<[stops |-> -1, existingBlockCode |-> "unobserved"]>>

\* summary?.routeBlockCode; "" stands for undefined
NoCode == ""
BlockCodeOf(sum) == IF sum = Null THEN NoCode ELSE Val(sum).routeBlockCode

\* route?.filter(s => s.type !== 'location') ?? []
EffectStops(r) == IF r = Null THEN 0 ELSE Len(DeliveryStops(Val(r)))

\* mutant: the fallback counts no stop
SummaryOfMutant(stops, totals, code) ==
    Some([totalStops |-> 0, totalDistance |-> totals, totalTime |-> totals,
          routeBlockCode |-> code])

\* the record a summary call settles into: the provider's totals ("ok")
\* with totalStops overwritten by stops.length, or the catch block's "N/A"
SummaryOf(stops, totals, code) ==
    Some([totalStops |-> stops, totalDistance |-> totals, totalTime |-> totals,
          routeBlockCode |-> code])

\* mutant: the cleanup leaves the timer running
ClearIntervalMutant(n, had) == n

\* the cleanup of the traffic effect: clearInterval(intervalId) when the
\* previous run of the effect had set one
ClearInterval(n, had) == IF had THEN n - 1 ELSE n

\* one run of fetchSummary for route r, with sum the summary of this render
SummaryEffect(r, sum, calls) ==
    IF EffectStops(r) > 0
        THEN /\ Len(calls) < MaxSummaryCalls
             /\ summaryCalls' = Append(calls, [stops |-> EffectStops(r),
                                               existingBlockCode |-> BlockCodeOf(sum)])
             /\ summary' = sum
    ELSE IF r # Null
        THEN /\ summary' = SummaryOf(0, "N/A", BlockCodeOf(sum))
             /\ summaryCalls' = calls
    ELSE /\ summary' = Null
         /\ summaryCalls' = calls

\* one run of the traffic effect: the cleanup of the previous run, then
\* either setTrafficInfo(null) or a first fetch and a new timer
TrafficEffect(r) ==
    LET cleared == ClearInterval(intervals, EffectStops(route) > 0)
    IN  IF EffectStops(r) = 0
            THEN /\ trafficInfo' = Null
                 /\ intervals' = cleared
                 /\ UNCHANGED trafficCalls
        ELSE /\ trafficCalls < MaxTrafficCalls
             /\ trafficCalls' = trafficCalls + 1
             /\ intervals' = cleared + 1
             /\ UNCHANGED trafficInfo

\* the effects after a render: routeSet tells that the handler gave route a
\* new array (or null in place of an array), sum is the summary the handler
\* left.  A render that threw unmounts App: only the cleanups run.
Effects(routeSet, sum) ==
    IF summaryCalls = Unobserved THEN UNCHANGED effectVars
    ELSE IF crashed'
        THEN /\ summary' = sum
             /\ intervals' = ClearInterval(intervals, EffectStops(route) > 0)
             /\ UNCHANGED <<summaryCalls, trafficInfo, trafficCalls>>
    ELSE /\ IF routeSet \/ BlockCodeOf(sum) # BlockCodeOf(summary)
                THEN SummaryEffect(route', sum, summaryCalls)
                ELSE summary' = sum /\ UNCHANGED summaryCalls
         /\ IF routeSet
                THEN TrafficEffect(route')
                ELSE UNCHANGED <<trafficInfo, trafficCalls, intervals>>

\* a render of App after a handler that is given the new route, if any
RenderSet(routeSet) ==
    /\ View
    /\ Effects(routeSet, summary)
    /\ UNCHANGED quotaVars

\* a render of App after a handler that sets route to null or leaves it
Render == RenderSet(route' # route)

\* a dialog covers the page
ModalOpen == stopToDeleteIndex # Null \/ editingStop # Null \/ isSubModalOpen

ResetLocals ==
    /\ stopToDeleteIndex' = Null
    /\ editingStop' = Null
    /\ editingStopIndex' = Null
    /\ draggedItemIndex' = Null

\* after App changed route and appStatus: RouteDisplay keeps its state while
\* it stays mounted and loses it when it is unmounted
Locals == IF Mounted(route', appStatus') THEN UNCHANGED localVars ELSE ResetLocals

Rerender ==
    /\ Locals
    /\ Render

\* the event loop takes the next event: the app is alive and no
\* continuation of a settled Promise.all is waiting to run
Ready ==
    /\ ~crashed
    /\ \A b \in 1..Len(extracting) : extracting[b].allResults = Null

\* the state after the mount effects: no route, no call in flight, the tier
\* read from localStorage 'flex-optimizer-tier' ('Free' when there is none)
InitWith(calls, tier) ==
    /\ route = Null
    /\ appStatus = "idle"
    /\ error = "null"
    /\ screenshotFiles = 0
    /\ savedRoute = Null
    /\ hasSavedRoute = FALSE
    /\ extracting = <<>>
    /\ optimizing = <<>>
    /\ stopToDeleteIndex = Null
    /\ editingStop = Null
    /\ editingStopIndex = Null
    /\ draggedItemIndex = Null
    /\ threw = FALSE
    /\ crashed = FALSE
    /\ googleMapsLinks = <<>>
    /\ summary = Null
    /\ summaryCalls = calls
    /\ trafficInfo = Null
    /\ trafficCalls = 0
    /\ intervals = 0
    /\ user = [tier |-> tier]
    /\ routeCount = 0
    /\ isSubModalOpen = FALSE

\* a subscriber opens the app
Init == InitWith(Unobserved, "Pro")

(***************************************************************************)
(* App handlers                                                            *)
(***************************************************************************)
\* FileUpload is rendered when there is no preview and no route ('replace'),
\* Add More Screenshots when there are previews and no route ('append')
handleFileChange(n, mode) ==
    /\ Ready /\ ~ModalOpen
    /\ route = Null
    /\ n > 0
    /\ mode = IF screenshotFiles = 0 THEN "replace" ELSE "append"
    /\ screenshotFiles' = IF mode = "replace" THEN n ELSE screenshotFiles + n
    /\ screenshotFiles' <= MaxFiles
    /\ route' = updateRouteAndCurrentStop(route, Null).route
    /\ error' = "null"
    /\ threw' = FALSE
    /\ UNCHANGED <<appStatus, savedRoute, hasSavedRoute, extracting, optimizing>>
    /\ Rerender

\* Start Over
handleReset ==
    /\ Ready /\ ~ModalOpen
    /\ screenshotFiles > 0 \/ route # Null
    /\ screenshotFiles' = 0
    /\ route' = updateRouteAndCurrentStop(route, Null).route
    /\ error' = "null"
    /\ appStatus' = "idle"
    /\ threw' = FALSE
    /\ UNCHANGED <<savedRoute, hasSavedRoute, extracting, optimizing>>
    /\ Rerender

\* routes a Free user may process
FreeRouteLimit == 5

\* Process Route up to the await: a Free user out of routes is refused;
\* otherwise one extraction call per file is dispatched.  The rest of the
\* handler keeps the user and the routeCount of this render.
handleProcessRoute ==
    /\ Ready /\ ~ModalOpen
    /\ screenshotFiles > 0 /\ route = Null /\ appStatus # "processing"
    /\ threw' = FALSE
    /\ IF user.tier = "Free" /\ routeCount >= FreeRouteLimit
           THEN /\ error' = "error"
                /\ isSubModalOpen' = TRUE
                /\ UNCHANGED <<route, appStatus, screenshotFiles, savedRoute, hasSavedRoute,
                               callVars, localVars, crashed, googleMapsLinks, effectVars,
                               user, routeCount>>
           ELSE /\ Len(extracting) < MaxExtracting
                /\ appStatus' = "processing"
                /\ error' = "null"
                /\ route' = updateRouteAndCurrentStop(route, Null).route
                /\ extracting' = Append(extracting,
                       [files |-> screenshotFiles, allResults |-> Null,
                        calls |-> [i \in 1..screenshotFiles |-> Null], completed |-> <<>>,
                        user |-> user, routeCount |-> routeCount])
                /\ UNCHANGED <<screenshotFiles, savedRoute, hasSavedRoute, optimizing>>
                /\ Locals
                /\ View
                /\ Effects(route' # route, Null)
                /\ UNCHANGED quotaVars

\* Promise.all settles: allResults holds the result of every call of the
\* batch, in dispatch order.  The rest of handleProcessRoute runs as a
\* microtask, before any other event is handled (see Ready).
ExtractionSettled(b, results) ==
    /\ Ready
    /\ b \in 1..Len(extracting)
    /\ Len(results) = extracting[b].files
    /\ extracting[b].completed = <<>>
    /\ extracting' = [extracting EXCEPT
           ![b].allResults = Some(results),
           ![b].calls = [i \in 1..Len(results) |-> Some(results[i])],
           ![b].completed = [i \in 1..Len(results) |-> i]]
    /\ UNCHANGED <<appVars, optimizing, localVars, threw, crashed, googleMapsLinks, effectVars, quotaVars>>

\* mutant: the results are collected in the order the calls completed
PromiseAllMutant(calls, completed) ==
    [k \in 1..Len(completed) |-> Val(calls[completed[k]])]

\* what Promise.all resolves with once every call is fulfilled: the results
\* in the order of the promises passed, whatever the order of completion
PromiseAll(calls, completed) == [i \in 1..Len(calls) |-> Val(calls[i])]

\* what the catch block receives when Promise.all rejects
Rejection == <<[ok |-> FALSE, stops |-> <<>>, routeBlockCode |-> NoCode]>>

\* one processRouteScreenshot call of batch b settles, in any order.  A
\* rejection rejects Promise.all at once; the last fulfilment resolves it.
ExtractionCallSettled(b, i, result) ==
    /\ Ready
    /\ b \in 1..Len(extracting)
    /\ i \in 1..extracting[b].files
    /\ extracting[b].calls[i] = Null
    /\ LET calls     == [extracting[b].calls EXCEPT ![i] = Some(result)]
           completed == Append(extracting[b].completed, i)
       IN  extracting' = [extracting EXCEPT
               ![b].calls = calls,
               ![b].completed = completed,
               ![b].allResults =
                   IF ~result.ok THEN Some(Rejection)
                   ELSE IF \A k \in 1..Len(calls) : calls[k] # Null
                       THEN Some(PromiseAll(calls, completed))
                   ELSE Null]
    /\ UNCHANGED <<appVars, optimizing, localVars, threw, crashed, googleMapsLinks, effectVars, quotaVars>>

\* mutant: the last result that reports a block code
FindBlockCodeMutant(allResults) ==
    LET found == {i \in 1..Len(allResults) : allResults[i].routeBlockCode # ""}
    IN  IF found = {} THEN NoCode
        ELSE allResults[CHOOSE i \in found : \A k \in found : k <= i].routeBlockCode

\* allResults.find(res => res.routeBlockCode)?.routeBlockCode: find walks
\* the array from index 0 and stops at the first truthy (non-empty) code
FindBlockCode(allResults) ==
    LET found == {i \in 1..Len(allResults) : allResults[i].routeBlockCode # ""}
    IN  IF found = {} THEN NoCode
        ELSE allResults[CHOOSE i \in found : \A k \in found : i <= k].routeBlockCode

\* handleProcessRoute after the await
ProcessRouteContinue(b) ==
    LET allResults == Val(extracting[b].allResults)
        addresses  == MergeStops(allResults)
        routeSet   == /\ \A i \in 1..Len(allResults) : allResults[i].ok
                      /\ Len(addresses) > 0
    IN  /\ ~crashed
        /\ b \in 1..Len(extracting)
        /\ extracting[b].allResults # Null
        /\ extracting' = RemoveAt(extracting, b)
        /\ IF \E i \in 1..Len(allResults) : ~allResults[i].ok
               THEN /\ error' = "error"
                    /\ route' = route
           ELSE IF Len(addresses) > 0
               THEN /\ route' = updateRouteAndCurrentStop(route, Some(addresses)).route
                    /\ error' = error
           ELSE /\ error' = "error"
                /\ route' = route
        /\ appStatus' = "idle"
        /\ threw' = FALSE
        /\ routeCount' = IF routeSet /\ extracting[b].user.tier = "Free"
                             THEN extracting[b].routeCount + 1
                             ELSE routeCount
        /\ UNCHANGED <<screenshotFiles, savedRoute, hasSavedRoute, optimizing, user,
                       isSubModalOpen>>
        /\ Locals
        /\ View
        /\ Effects(routeSet,
                   IF routeSet
                       THEN SummaryOf(Len(addresses), "...", FindBlockCode(allResults))
                       ELSE summary)

\* Save Optimized Route
handleSaveRoute ==
    /\ Ready /\ ~ModalOpen
    /\ route # Null /\ appStatus # "processing"
    /\ savedRoute' = Some(JSONStringify(Val(route)))
    /\ hasSavedRoute' = TRUE
    /\ threw' = FALSE
    /\ UNCHANGED <<route, appStatus, error, screenshotFiles, extracting, optimizing>>
    /\ UNCHANGED <<localVars, crashed, googleMapsLinks, effectVars, quotaVars>>

\* Load Saved Route: rendered when there is no preview, no route and
\* hasSavedRoute; nothing happens when no text is stored
handleLoadRoute ==
    /\ Ready /\ ~ModalOpen
    /\ screenshotFiles = 0 /\ route = Null /\ hasSavedRoute
    /\ savedRoute # Null
    /\ LET loaded == LoadRoute(route, Val(savedRoute))
       IN  IF loaded.ok
               THEN /\ route' = loaded.route
                    /\ screenshotFiles' = 0
                    /\ error' = "null"
                    /\ appStatus' = "idle"
                    /\ UNCHANGED <<savedRoute, hasSavedRoute>>
               ELSE /\ error' = "error"
                    /\ savedRoute' = Null
                    /\ hasSavedRoute' = FALSE
                    /\ UNCHANGED <<route, screenshotFiles, appStatus>>
    /\ threw' = FALSE
    /\ UNCHANGED <<extracting, optimizing>>
    /\ Rerender

(***************************************************************************)
(* RouteDisplay handlers, as functions of the route prop and their         *)
(* arguments.  r is the route (not null); indices are 0-based.             *)
(***************************************************************************)
InRange(a, index) == index >= 0 /\ index < Len(a)

\* a[index] = e on a JavaScript array: past the end it leaves holes
ArraySet(a, index, e) ==
    [k \in 1..(IF index + 1 > Len(a) THEN index + 1 ELSE Len(a)) |->
        IF k = index + 1 THEN e ELSE IF k <= Len(a) THEN a[k] ELSE Hole]

\* mutant: splice(index, 1) leaves the array as it was
SpliceOutMutant(a, index) ==
    [rest |-> a, removed |-> IF InRange(a, index) THEN a[index + 1] ELSE Undefined]

\* a.splice(index, 1): the array left and the element removed
SpliceOut(a, index) ==
    IF InRange(a, index)
        THEN [rest |-> RemoveAt(a, index + 1), removed |-> a[index + 1]]
        ELSE [rest |-> a, removed |-> Undefined]

\* a.splice(index, 0, e): a start past the end is the end
SpliceIn(a, index, e) ==
    InsertAt(a, (IF index > Len(a) THEN Len(a) ELSE index) + 1, e)

\* handleFieldChange(index, 'label', value): writing a property of
\* newDeliveryStops[index] throws a TypeError when there is no such element
FieldChange(r, index, value) ==
    LET deliveryStops == DeliveryStops(r)
    IN  IF ~InRange(deliveryStops, index) THEN Thrown(Some(r))
        ELSE LET newDeliveryStops ==
                     [deliveryStops EXCEPT ![index + 1].label = value]
             IN  updateRouteAndCurrentStop(Some(r),
                     Some(NewRoute(LocationStop(r), newDeliveryStops)))

\* handleSaveConstraints, lines 184-187
SaveConstraints(r, stop, index) ==
    LET newDeliveryStops == ArraySet(DeliveryStops(r), index, stop)
    IN  updateRouteAndCurrentStop(Some(r),
            Some(NewRoute(LocationStop(r), newDeliveryStops)))

\* handleDrop, lines 211-215
Drop(r, dragged, index) ==
    LET out == SpliceOut(DeliveryStops(r), dragged)
        newDeliveryStops == SpliceIn(out.rest, index, out.removed)
    IN  updateRouteAndCurrentStop(Some(r),
            Some(NewRoute(LocationStop(r), newDeliveryStops)))

\* handleMove
Move(r, index, direction) ==
    LET deliveryStops == DeliveryStops(r)
        item     == IF InRange(deliveryStops, index)
                        THEN deliveryStops[index + 1] ELSE Undefined
        newIndex == IF direction = "up" THEN index - 1 ELSE index + 1
    IN  IF newIndex < 0 \/ newIndex >= Len(deliveryStops) THEN Done(Some(r))
        ELSE LET newDeliveryStops ==
                     SpliceIn(SpliceOut(deliveryStops, index).rest, newIndex, item)
             IN  updateRouteAndCurrentStop(Some(r),
                     Some(NewRoute(LocationStop(r), newDeliveryStops)))

\* mutant: filter((_, i) => i < stopToDeleteIndex)
ConfirmDeleteMutant(r, index) ==
    LET deliveryStops == DeliveryStops(r)
        newDeliveryStops == SubSeq(deliveryStops, 1, index)
    IN  updateRouteAndCurrentStop(Some(r),
            Some(NewRoute(LocationStop(r), newDeliveryStops)))

\* handleConfirmDelete, lines 248-250
ConfirmDelete(r, index) ==
    LET deliveryStops == DeliveryStops(r)
        kept == {i \in 1..Len(deliveryStops) : i - 1 # index}
        newDeliveryStops ==
            [k \in 1..Cardinality(kept) |->
                deliveryStops[CHOOSE i \in kept :
                    Cardinality({j \in kept : j < i}) = k - 1]]
    IN  updateRouteAndCurrentStop(Some(r),
            Some(NewRoute(LocationStop(r), newDeliveryStops)))

\* handleConfirmDelete of the mobile RouteDisplay: it keeps the stop to
\* delete, not its index, filters by originalStopNumber and hands the new
\* route to setRoute
ConfirmDeleteMobile(r, stopToDelete) ==
    LET newDeliveryStops ==
            SelectSeq(DeliveryStops(r),
                LAMBDA s : s.originalStopNumber # stopToDelete.originalStopNumber)
    IN  NewRoute(LocationStop(r), newDeliveryStops)

\* handleResetOrder of the mobile RouteDisplay: onRouteUpdate is setRoute
ResetOrderMobile(r) == NewRoute(LocationStop(r), SortByStopNumber(DeliveryStops(r)))

\* mutant: the reset route is rebuilt from fresh stops with the kept numbers
ResetOrderMutant(r) ==
    updateRouteAndCurrentStop(Some(r),
        Some(NewRoute(LocationStop(r),
            [i \in 1..Len(DeliveryStops(r)) |->
                [RawStop(SortByStopNumber(DeliveryStops(r))[i].originalStopNumber, "A St")
                    EXCEPT !.type = "delivery"]])))

\* handleResetOrder
ResetOrder(r) ==
    updateRouteAndCurrentStop(Some(r),
        Some(NewRoute(LocationStop(r), SortByStopNumber(DeliveryStops(r)))))

(***************************************************************************)
(* RouteDisplay actions: what the rendered list lets the user do.  A       *)
(* dialog covers the page, so the list and the App buttons take no input   *)
(* while one is open.                                                      *)
(***************************************************************************)
Interactive == Ready /\ Mounted(route, appStatus) /\ ~ModalOpen

RenderedIndices == 0..(Len(DeliveryStops(Val(route))) - 1)

\* a handler of RouteDisplay that ends in onRouteUpdate(newRoute)
RouteUpdate(res) ==
    /\ route' = res.route
    /\ threw' = res.threw
    /\ UNCHANGED <<appStatus, error, screenshotFiles, savedRoute, hasSavedRoute, extracting, optimizing>>

handleFieldChange(index, value) ==
    /\ Interactive
    /\ index \in RenderedIndices
    /\ value # DeliveryStops(Val(route))[index + 1].label
    /\ RouteUpdate(FieldChange(Val(route), index, value))
    /\ UNCHANGED localVars
    /\ RenderSet(~threw')

handleOpenConstraintModal(index) ==
    /\ Interactive
    /\ index \in RenderedIndices
    /\ editingStop' = Some(DeliveryStops(Val(route))[index + 1])
    /\ editingStopIndex' = Some(index)
    /\ threw' = FALSE
    /\ UNCHANGED <<appVars, callVars, stopToDeleteIndex, draggedItemIndex, crashed, googleMapsLinks, effectVars, quotaVars>>

\* the Priority switch of the dialog
handleConstraintChange ==
    /\ Ready /\ editingStop # Null
    /\ editingStop' = Some([Val(editingStop) EXCEPT !.isPriority = ~@])
    /\ threw' = FALSE
    /\ UNCHANGED <<appVars, callVars, stopToDeleteIndex, editingStopIndex,
                   draggedItemIndex, crashed, googleMapsLinks, effectVars, quotaVars>>

\* Cancel and the close button: setEditingStop(null).  editingStopIndex
\* keeps its value in the source; it is read only while editingStop is set
\* and the next open overwrites it, so it is cleared here.
CancelEdit ==
    /\ Ready /\ editingStop # Null
    /\ editingStop' = Null
    /\ editingStopIndex' = Null
    /\ threw' = FALSE
    /\ UNCHANGED <<appVars, callVars, stopToDeleteIndex, draggedItemIndex, crashed, googleMapsLinks, effectVars, quotaVars>>

handleSaveConstraints ==
    /\ Ready /\ editingStop # Null /\ editingStopIndex # Null
    /\ LET res == SaveConstraints(Val(route), Val(editingStop), Val(editingStopIndex))
       IN  /\ RouteUpdate(res)
           /\ IF res.threw
                  THEN UNCHANGED <<editingStop, editingStopIndex>>
                  ELSE editingStop' = Null /\ editingStopIndex' = Null
    /\ UNCHANGED <<stopToDeleteIndex, draggedItemIndex>>
    /\ RenderSet(~threw')

handleDragStart(index) ==
    /\ Interactive
    /\ index \in RenderedIndices
    /\ draggedItemIndex' = Some(index)
    /\ threw' = FALSE
    /\ UNCHANGED <<appVars, callVars, stopToDeleteIndex, editingStop,
                   editingStopIndex, crashed, googleMapsLinks, effectVars, quotaVars>>

handleDrop(index) ==
    /\ Interactive
    /\ index \in RenderedIndices
    /\ draggedItemIndex # Null /\ draggedItemIndex # Some(index)
    /\ LET res == Drop(Val(route), Val(draggedItemIndex), index)
       IN  /\ RouteUpdate(res)
           /\ draggedItemIndex' = IF res.threw THEN draggedItemIndex ELSE Null
    /\ UNCHANGED <<stopToDeleteIndex, editingStop, editingStopIndex>>
    /\ RenderSet(~threw')

\* the up arrow is disabled on the first row, the down arrow on the last
handleMove(index, direction) ==
    /\ Interactive
    /\ index \in RenderedIndices
    /\ direction = "up" => index # 0
    /\ direction = "down" => index # Len(DeliveryStops(Val(route))) - 1
    /\ RouteUpdate(Move(Val(route), index, direction))
    /\ UNCHANGED localVars
    /\ RenderSet(~threw')

handleDeleteRequest(index) ==
    /\ Interactive
    /\ index \in RenderedIndices
    /\ stopToDeleteIndex' = Some(index)
    /\ threw' = FALSE
    /\ UNCHANGED <<appVars, callVars, editingStop, editingStopIndex,
                   draggedItemIndex, crashed, googleMapsLinks, effectVars, quotaVars>>

handleConfirmDelete ==
    /\ Ready /\ stopToDeleteIndex # Null
    /\ RouteUpdate(ConfirmDelete(Val(route), Val(stopToDeleteIndex)))
    /\ stopToDeleteIndex' = Null
    /\ UNCHANGED <<editingStop, editingStopIndex, draggedItemIndex>>
    /\ RenderSet(~threw')

handleCancelDelete ==
    /\ Ready /\ stopToDeleteIndex # Null
    /\ stopToDeleteIndex' = Null
    /\ threw' = FALSE
    /\ UNCHANGED <<appVars, callVars, editingStop, editingStopIndex,
                   draggedItemIndex, crashed, googleMapsLinks, effectVars, quotaVars>>

\* Reset to Original Order: disabled while optimizing
handleResetOrder ==
    /\ Interactive
    /\ appStatus # "optimizing"
    /\ RouteUpdate(ResetOrder(Val(route)))
    /\ UNCHANGED localVars
    /\ RenderSet(~threw')

(***************************************************************************)
(* Optimize: handleAiOptimize, the geolocation callbacks and               *)
(* performOptimization.  A call in flight keeps the deliveryStops it       *)
(* captured; location is "none" (useLocation off), "pending" (waiting for  *)
(* getCurrentPosition) or "got" (optimizeRouteOrder issued with it).       *)
(***************************************************************************)
Range(s) == {s[i] : i \in 1..Len(s)}

\* optimizeRouteOrder (geminiService) returns JSON.parse of the provider's
\* text unchecked: any list of stops.  The provider answers with stops of
\* the request, in any order, with omissions and repetitions.
Responses(stops) == SeqsUpTo(Range(stops), MaxResp)

\* the answers that honour the contract: the stops of the request, reordered
Reorderings(stops) ==
    {p \in [1..Len(stops) -> Range(stops)] :
        \A s \in Range(stops) :
            Cardinality({i \in 1..Len(stops) : p[i] = s})
                = Cardinality({i \in 1..Len(stops) : stops[i] = s})}

optimizeRouteOrder(stops, response) == response

\* AI Optimize Route: disabled while optimizing
handleAiOptimize(useLocation) ==
    LET deliveryStops == DeliveryStops(Val(route))
    IN  /\ Interactive
        /\ appStatus # "optimizing"
        /\ Len(deliveryStops) >= 1
        /\ Len(optimizing) < MaxOptimizing
        /\ appStatus' = "optimizing"
        /\ error' = "null"
        /\ optimizing' = Append(optimizing,
               [stops |-> deliveryStops,
                location |-> IF useLocation THEN "pending" ELSE "none"])
        /\ threw' = FALSE
        /\ UNCHANGED <<route, screenshotFiles, savedRoute, hasSavedRoute, extracting, localVars, crashed, googleMapsLinks, effectVars, quotaVars>>

\* getCurrentPosition success callback: performOptimization(location)
GeolocationSuccess(c) ==
    /\ Ready
    /\ c \in 1..Len(optimizing)
    /\ optimizing[c].location = "pending"
    /\ optimizing' = [optimizing EXCEPT ![c].location = "got"]
    /\ threw' = FALSE
    /\ UNCHANGED <<appVars, extracting, localVars, crashed, googleMapsLinks, effectVars, quotaVars>>

\* getCurrentPosition error callback
GeolocationError(c) ==
    /\ Ready
    /\ c \in 1..Len(optimizing)
    /\ optimizing[c].location = "pending"
    /\ optimizing' = RemoveAt(optimizing, c)
    /\ error' = "error"
    /\ appStatus' = "idle"
    /\ threw' = FALSE
    /\ UNCHANGED <<route, screenshotFiles, savedRoute, hasSavedRoute, extracting>>
    /\ Rerender

\* performOptimization after the await: the provider answered
OptimizeResolved(c, response) ==
    LET call      == optimizing[c]
        optimized == optimizeRouteOrder(call.stops, response)
        newRoute  == IF call.location = "got"
                         THEN <<currentLocationStop>> \o optimized
                         ELSE optimized
    IN  /\ Ready
        /\ c \in 1..Len(optimizing)
        /\ call.location # "pending"
        /\ optimizing' = RemoveAt(optimizing, c)
        /\ route' = updateRouteAndCurrentStop(route, Some(newRoute)).route
        /\ appStatus' = "idle"
        /\ threw' = FALSE
        /\ UNCHANGED <<error, screenshotFiles, savedRoute, hasSavedRoute, extracting>>
        /\ Locals
        /\ RenderSet(~updateRouteAndCurrentStop(route, Some(newRoute)).threw)

\* performOptimization after the await: the call failed, or its text did
\* not parse
OptimizeRejected(c) ==
    /\ Ready
    /\ c \in 1..Len(optimizing)
    /\ optimizing[c].location # "pending"
    /\ optimizing' = RemoveAt(optimizing, c)
    /\ error' = "error"
    /\ appStatus' = "idle"
    /\ threw' = FALSE
    /\ UNCHANGED <<route, screenshotFiles, savedRoute, hasSavedRoute, extracting>>
    /\ Rerender

(***************************************************************************)
(* The provider answers the summary and the traffic calls; the timer fires *)
(***************************************************************************)
\* getRouteSummary of call c settled: fetchSummary stores the provider's
\* totals, or "N/A" from its catch block, under the block code it read when
\* it started.  A block code that differs from the current one reruns the
\* summary effect.
SummarySettled(c, ok) ==
    /\ Ready
    /\ summaryCalls # Unobserved
    /\ c \in 1..Len(summaryCalls)
    /\ LET call   == summaryCalls[c]
           newSum == SummaryOf(call.stops, IF ok THEN "ok" ELSE "N/A",
                               call.existingBlockCode)
           rest   == RemoveAt(summaryCalls, c)
       IN  IF BlockCodeOf(newSum) # BlockCodeOf(summary)
               THEN SummaryEffect(route, newSum, rest)
               ELSE summary' = newSum /\ summaryCalls' = rest
    /\ UNCHANGED <<appVars, callVars, localVars, threw, crashed, googleMapsLinks,
                   trafficInfo, trafficCalls, intervals, quotaVars>>

\* window.setInterval(fetchTraffic, 60000) fires: every active timer calls
\* getLiveTraffic
TrafficTick ==
    /\ Ready
    /\ summaryCalls # Unobserved
    /\ intervals > 0
    /\ trafficCalls < MaxTrafficCalls
    /\ trafficCalls' = trafficCalls + 1
    /\ UNCHANGED <<appVars, callVars, localVars, threw, crashed, googleMapsLinks,
                   summary, summaryCalls, trafficInfo, intervals, quotaVars>>

TrafficStatuses == {"Light", "Heavy", "Unknown"}

\* a getLiveTraffic call settled: fetchTraffic stores the provider's
\* status, or 'Unknown' from its catch block
TrafficSettled(ok, status) ==
    /\ Ready
    /\ summaryCalls # Unobserved
    /\ trafficCalls > 0
    /\ trafficCalls' = trafficCalls - 1
    /\ trafficInfo' = Some([status |-> IF ok THEN status ELSE "Unknown"])
    /\ UNCHANGED <<appVars, callVars, localVars, threw, crashed, googleMapsLinks,
                   summary, summaryCalls, intervals, quotaVars>>

(***************************************************************************)
(* The subscription dialog                                                 *)
(***************************************************************************)
\* Header: onOpenSubModal
OpenSubModal ==
    /\ Ready /\ ~ModalOpen
    /\ isSubModalOpen' = TRUE
    /\ UNCHANGED <<appVars, callVars, localVars, threw, crashed, googleMapsLinks,
                   effectVars, user, routeCount>>

\* SubscriptionModal: onClose
CloseSubModal ==
    /\ Ready /\ isSubModalOpen
    /\ isSubModalOpen' = FALSE
    /\ UNCHANGED <<appVars, callVars, localVars, threw, crashed, googleMapsLinks,
                   effectVars, user, routeCount>>

\* SubscriptionModal: Upgrade to Pro, or Downgrade to Free
handleSubscriptionChange(newTier) ==
    /\ Ready /\ isSubModalOpen
    /\ newTier = IF user.tier = "Pro" THEN "Free" ELSE "Pro"
    /\ user' = [tier |-> newTier]
    /\ isSubModalOpen' = IF newTier = "Pro" THEN FALSE ELSE isSubModalOpen
    /\ error' = IF newTier = "Pro" THEN "null" ELSE error
    /\ UNCHANGED <<route, appStatus, screenshotFiles, savedRoute, hasSavedRoute, callVars,
                   localVars, threw, crashed, googleMapsLinks, effectVars, routeCount>>

(***************************************************************************)
(* Specifications                                                          *)
(***************************************************************************)
\* extraction results of a batch of n files
Batches(n, streets) == [1..n -> FileResults(streets)]

\* selecting screenshots, Process Route and the extraction calls
NextIngest(streets) ==
    \/ \E n \in 1..MaxFiles, mode \in {"replace", "append"} : handleFileChange(n, mode)
    \/ handleProcessRoute
    \/ \E b \in 1..Len(extracting) :
           \E results \in Batches(extracting[b].files, streets) : ExtractionSettled(b, results)
    \/ \E b \in 1..Len(extracting) : ProcessRouteContinue(b)

\* the optimize flow up to the provider's answer
NextOptimizeCall ==
    \/ \E useLocation \in BOOLEAN : handleAiOptimize(useLocation)
    \/ \E c \in 1..Len(optimizing) : GeolocationSuccess(c)
    \/ \E c \in 1..Len(optimizing) : GeolocationError(c)
    \/ \E c \in 1..Len(optimizing) : OptimizeRejected(c)

\* the provider answers with any list of the stops it was sent
NextOptimize ==
    \/ NextOptimizeCall
    \/ \E c \in 1..Len(optimizing) :
           \E response \in Responses(optimizing[c].stops) : OptimizeResolved(c, response)

\* the provider answers with a permutation of the stops it was sent
NextOptimizeHonest ==
    \/ NextOptimizeCall
    \/ \E c \in 1..Len(optimizing) :
           \E response \in Reorderings(optimizing[c].stops) : OptimizeResolved(c, response)

\* reordering and deleting stops
NextOrder ==
    \/ \E index \in 0..MaxStopNum : handleDragStart(index)
    \/ \E index \in 0..MaxStopNum : handleDrop(index)
    \/ \E index \in 0..MaxStopNum, direction \in {"up", "down"} : handleMove(index, direction)
    \/ \E index \in 0..MaxStopNum : handleDeleteRequest(index)
    \/ handleConfirmDelete
    \/ handleCancelDelete
    \/ handleResetOrder

\* the Edit Details dialog
NextDialog ==
    \/ \E index \in 0..MaxStopNum : handleOpenConstraintModal(index)
    \/ handleConstraintChange
    \/ CancelEdit
    \/ handleSaveConstraints

\* the inline fields of a row
NextField ==
    \E index \in 0..MaxStopNum, value \in Labels : handleFieldChange(index, value)

\* Spec: the user uploads, reorders, deletes, optimizes and starts over
Next ==
    \/ NextIngest({"A St"})
    \/ handleReset
    \/ NextOrder
    \/ NextOptimize

Spec == Init /\ [][Next]_vars

\* SpecMutate: every mutator of RouteDisplay, with any provider answer
NextMutate ==
    \/ NextIngest({"A St"})
    \/ NextOrder
    \/ NextDialog
    \/ NextField
    \/ NextOptimize

SpecMutate == Init /\ [][NextMutate]_vars

\* SpecHonest: every mutator of RouteDisplay, with a provider that honours
\* its contract
NextHonest ==
    \/ NextIngest({"A St"})
    \/ NextOrder
    \/ NextDialog
    \/ NextField
    \/ NextOptimizeHonest

SpecHonest == Init /\ [][NextHonest]_vars

\* SpecBatch: the extraction calls of a batch settle one by one, in any order
NextBatch ==
    \/ \E n \in 1..MaxFiles, mode \in {"replace", "append"} : handleFileChange(n, mode)
    \/ handleProcessRoute
    \/ \E b \in 1..Len(extracting), i \in 1..MaxFiles, result \in FileResults(Streets) :
           ExtractionCallSettled(b, i, result)
    \/ \E b \in 1..Len(extracting) : ProcessRouteContinue(b)
    \/ handleReset

SpecBatch == Init /\ [][NextBatch]_vars

\* a route of n delivery stops as ingestion leaves it, and the route an
\* optimize with a start location makes of it
LongRoute(n, withLocation) ==
    LET deliveryStops ==
            [i \in 1..n |->
                [RawStop(i, ToString(i) \o " Main St") EXCEPT !.type = "delivery"]]
    IN  updateRouteAndCurrentStop(Null,
            Some(IF withLocation THEN <<currentLocationStop>> \o deliveryStops
                                 ELSE deliveryStops)).route

InitLinks ==
    /\ \E n \in 0..MaxLinkStops, withLocation \in BOOLEAN :
           /\ n = 0 => withLocation
           /\ route = LongRoute(n, withLocation)
    /\ appStatus = "idle"
    /\ error = "null"
    /\ screenshotFiles = 1
    /\ savedRoute = Null
    /\ hasSavedRoute = FALSE
    /\ extracting = <<>>
    /\ optimizing = <<>>
    /\ stopToDeleteIndex = Null
    /\ editingStop = Null
    /\ editingStopIndex = Null
    /\ draggedItemIndex = Null
    /\ threw = FALSE
    /\ crashed = FALSE
    /\ googleMapsLinks = generateGoogleMapsLinks(Val(route))
    /\ summary = Null
    /\ summaryCalls = Unobserved
    /\ trafficInfo = Null
    /\ trafficCalls = 0
    /\ intervals = 0
    /\ user = [tier |-> "Pro"]
    /\ routeCount = 0
    /\ isSubModalOpen = FALSE

\* SpecLinks: a long route is shown; the user swaps the first two stops,
\* deletes the first stop and resets the order
NextLinks ==
    \/ \E index \in 0..1, direction \in {"up", "down"} :
           /\ index = 0 <=> direction = "down"
           /\ handleMove(index, direction)
    \/ handleDeleteRequest(0)
    \/ handleConfirmDelete
    \/ handleCancelDelete
    \/ handleResetOrder

SpecLinks == InitLinks /\ [][NextLinks]_vars

\* SpecIngest: the user uploads, saves, loads and starts over; the
\* screenshots may show the same stop number with different addresses
NextUpload ==
    \/ NextIngest(Streets)
    \/ handleReset
    \/ handleSaveRoute
    \/ handleLoadRoute

SpecIngest == Init /\ [][NextUpload]_vars

\* ingestion of screenshots that show one of codes as their block code
NextIngestCoded(codes) ==
    \/ \E n \in 1..MaxFiles, mode \in {"replace", "append"} : handleFileChange(n, mode)
    \/ handleProcessRoute
    \/ \E b \in 1..Len(extracting) :
           \E results \in [1..extracting[b].files -> CodedResults({"A St"}, codes)] :
               ExtractionSettled(b, results)
    \/ \E b \in 1..Len(extracting) : ProcessRouteContinue(b)

\* the provider answers the summary and the traffic calls
NextAnswers ==
    \/ \E c \in 1..Len(summaryCalls), ok \in BOOLEAN : SummarySettled(c, ok)
    \/ TrafficTick
    \/ \E ok \in BOOLEAN, status \in TrafficStatuses : TrafficSettled(ok, status)

\* SpecEffects: the summary and the traffic effects are followed while the
\* user uploads screenshots with or without a block code, deletes stops and
\* starts over, and while the provider answers in any order
InitEffects == InitWith(<<>>, "Pro")

NextEffects ==
    \/ NextIngestCoded({"", "VCN3"})
    \/ handleReset
    \/ \E index \in 0..MaxStopNum : handleDeleteRequest(index)
    \/ handleConfirmDelete
    \/ handleCancelDelete
    \/ NextAnswers

SpecEffects == InitEffects /\ [][NextEffects]_vars

\* SpecCodes: the screenshots show block codes
BlockCodes == {"", "VCN3", "DAB5"}

NextCodes ==
    \/ NextIngestCoded(BlockCodes)
    \/ NextAnswers

SpecCodes == InitEffects /\ [][NextCodes]_vars

(***************************************************************************)
(* The optimize flow of the mobile app (src/App.tsx).  isOptimizing is the *)
(* status 'optimizing'; a call waits for the location permission          *)
(* ("permission"), for the position ("pending") or for the provider        *)
(* ("got", "none").                                                        *)
(***************************************************************************)
\* the location stop of the mobile app has no status
currentLocationStopMobile ==
    [originalStopNumber |-> 0, street |-> "Your Current Location", label |-> "",
     type |-> "location"]

\* AI Optimize Route, up to the first await; both buttons are disabled
\* while isOptimizing
handleAiOptimizeMobile(useLocation) ==
    LET deliveryStops == DeliveryStops(Val(route))
    IN  /\ route # Null
        /\ appStatus # "optimizing"
        /\ Len(deliveryStops) >= 1
        /\ Len(optimizing) < MaxOptimizing
        /\ appStatus' = "optimizing"
        /\ error' = "null"
        /\ optimizing' = Append(optimizing,
               [stops |-> deliveryStops,
                location |-> IF useLocation THEN "permission" ELSE "none"])
        /\ threw' = FALSE
        /\ UNCHANGED <<route, screenshotFiles, savedRoute, hasSavedRoute, extracting,
                       localVars, crashed, googleMapsLinks, effectVars, quotaVars>>

PermissionOutcomes == {"granted", "denied", "rejected"}

\* Location.requestForegroundPermissionsAsync() settled.  Granted: the
\* position is requested.  Denied: the error is shown and isOptimizing
\* reset.  Rejected: the await is outside every try block, so the handler
\* ends there with an unhandled rejection.
PermissionSettled(c, outcome) ==
    /\ c \in 1..Len(optimizing)
    /\ optimizing[c].location = "permission"
    /\ optimizing' = IF outcome = "granted"
                         THEN [optimizing EXCEPT ![c].location = "pending"]
                         ELSE RemoveAt(optimizing, c)
    /\ error' = IF outcome = "denied" THEN "error" ELSE error
    /\ appStatus' = IF outcome = "denied" THEN "idle" ELSE appStatus
    /\ threw' = (outcome = "rejected")
    /\ UNCHANGED <<route, screenshotFiles, savedRoute, hasSavedRoute, extracting,
                   localVars, crashed, googleMapsLinks, effectVars, quotaVars>>

\* Location.getCurrentPositionAsync() settled: performOptimization(location),
\* or the catch block
PositionSettled(c, ok) ==
    /\ c \in 1..Len(optimizing)
    /\ optimizing[c].location = "pending"
    /\ optimizing' = IF ok THEN [optimizing EXCEPT ![c].location = "got"]
                           ELSE RemoveAt(optimizing, c)
    /\ error' = IF ok THEN error ELSE "error"
    /\ appStatus' = IF ok THEN appStatus ELSE "idle"
    /\ threw' = FALSE
    /\ UNCHANGED <<route, screenshotFiles, savedRoute, hasSavedRoute, extracting,
                   localVars, crashed, googleMapsLinks, effectVars, quotaVars>>

\* performOptimization after the await: setRoute of the answer, or the
\* catch block; finally setIsOptimizing(false)
OptimizeSettledMobile(c, ok, response) ==
    LET call      == optimizing[c]
        optimized == optimizeRouteOrder(call.stops, response)
        newRoute  == IF call.location = "got"
                         THEN <<currentLocationStopMobile>> \o optimized
                         ELSE optimized
    IN  /\ c \in 1..Len(optimizing)
        /\ call.location \in {"got", "none"}
        /\ optimizing' = RemoveAt(optimizing, c)
        /\ route' = IF ok THEN Some(newRoute) ELSE route
        /\ error' = IF ok THEN error ELSE "error"
        /\ appStatus' = "idle"
        /\ threw' = FALSE
        /\ googleMapsLinks' = generateGoogleMapsLinksMobile(Val(route'))
        /\ UNCHANGED <<screenshotFiles, savedRoute, hasSavedRoute, extracting, localVars,
                       crashed, effectVars, quotaVars>>

\* SpecMobile: the mobile app shows a route; the user optimizes it, and
\* every call that was issued settles in the end
InitMobile ==
    /\ \E n \in 1..MaxMobileStops :
           route = Some([i \in 1..n |->
                            [RawStop(i, ToString(i) \o " Main St") EXCEPT !.type = "delivery"]])
    /\ appStatus = "idle"
    /\ error = "null"
    /\ screenshotFiles = 1
    /\ savedRoute = Null
    /\ hasSavedRoute = FALSE
    /\ extracting = <<>>
    /\ optimizing = <<>>
    /\ stopToDeleteIndex = Null
    /\ editingStop = Null
    /\ editingStopIndex = Null
    /\ draggedItemIndex = Null
    /\ threw = FALSE
    /\ crashed = FALSE
    /\ googleMapsLinks = generateGoogleMapsLinksMobile(Val(route))
    /\ summary = Null
    /\ summaryCalls = Unobserved
    /\ trafficInfo = Null
    /\ trafficCalls = 0
    /\ intervals = 0
    /\ user = [tier |-> "Pro"]
    /\ routeCount = 0
    /\ isSubModalOpen = FALSE

PermissionSettles ==
    \E c \in 1..Len(optimizing), outcome \in PermissionOutcomes : PermissionSettled(c, outcome)

PositionSettles ==
    \E c \in 1..Len(optimizing), ok \in BOOLEAN : PositionSettled(c, ok)

OptimizeSettlesMobile ==
    \E c \in 1..Len(optimizing), ok \in BOOLEAN :
        \E response \in Reorderings(optimizing[c].stops) : OptimizeSettledMobile(c, ok, response)

NextMobile ==
    \/ \E useLocation \in BOOLEAN : handleAiOptimizeMobile(useLocation)
    \/ PermissionSettles
    \/ PositionSettles
    \/ OptimizeSettlesMobile

SpecMobile ==
    /\ InitMobile
    /\ [][NextMobile]_vars
    /\ WF_vars(PermissionSettles)
    /\ WF_vars(PositionSettles)
    /\ WF_vars(OptimizeSettlesMobile)

\* SpecQuota: a Free user uploads, starts over, and opens the subscription
\* dialog to change tier
InitQuota == InitWith(Unobserved, "Free")

NextQuota ==
    \/ NextIngest({"A St"})
    \/ handleReset
    \/ OpenSubModal
    \/ CloseSubModal
    \/ \E newTier \in {"Free", "Pro"} : handleSubscriptionChange(newTier)

SpecQuota == InitQuota /\ [][NextQuota]_vars

\* the texts the storage may hold when the app starts: no JSON, an object,
\* the empty array, an array of an empty object, an array of null, and a
\* saved route of one stop
StoredTexts ==
    {NotJson, JsonObject, JsonArray(<<>>), JsonArray(<<EmptyObject>>),
     JsonArray(<<JsonNull>>), JSONStringify(Val(LongRoute(1, FALSE)))}

\* the mount effect reads hasSavedRoute off the storage
InitStorage ==
    /\ route = Null
    /\ appStatus = "idle"
    /\ error = "null"
    /\ screenshotFiles = 0
    /\ savedRoute \in {Null} \cup {Some(text) : text \in StoredTexts}
    /\ hasSavedRoute = (savedRoute # Null)
    /\ extracting = <<>>
    /\ optimizing = <<>>
    /\ stopToDeleteIndex = Null
    /\ editingStop = Null
    /\ editingStopIndex = Null
    /\ draggedItemIndex = Null
    /\ threw = FALSE
    /\ crashed = FALSE
    /\ googleMapsLinks = <<>>
    /\ summary = Null
    /\ summaryCalls = Unobserved
    /\ trafficInfo = Null
    /\ trafficCalls = 0
    /\ intervals = 0
    /\ user = [tier |-> "Pro"]
    /\ routeCount = 0
    /\ isSubModalOpen = FALSE

\* SpecStorage: the storage holds any text at the start; the user uploads,
\* deletes stops, saves, starts over and loads
NextStorage ==
    \/ NextIngest({"A St"})
    \/ handleReset
    \/ handleSaveRoute
    \/ handleLoadRoute
    \/ \E index \in 0..MaxStopNum : handleDeleteRequest(index)
    \/ handleConfirmDelete
    \/ handleCancelDelete

SpecStorage == InitStorage /\ [][NextStorage]_vars

(***************************************************************************)
(* Properties                                                              *)
(***************************************************************************)
StopNumbers(stops) == [i \in 1..Len(stops) |-> stops[i].originalStopNumber]

CountOf(stops, n) == Cardinality({i \in 1..Len(stops) : stops[i].originalStopNumber = n})

\* the same multiset of originalStopNumbers
SameStopNumbers(a, b) ==
    \A n \in Range(StopNumbers(a)) \cup Range(StopNumbers(b)) : CountOf(a, n) = CountOf(b, n)

\* a stop without its derived isCurrentStop flag
OtherFields(stops) == [i \in 1..Len(stops) |-> [stops[i] EXCEPT !.isCurrentStop = FALSE]]

\* after is before without its element at (0-based) index
RemovedAt(before, after, index) ==
    /\ Len(after) = Len(before) - 1
    /\ \A k \in 1..Len(after) : after[k] = before[IF k <= index THEN k ELSE k + 1]

\* C1: in every reachable route at most one stop has isCurrentStop, and it
\* is the first stop that is not the location stop and whose status is
\* absent or 'pending'; when there is no such stop, no stop has the flag.
C1_OneCurrentStop ==
    route # Null =>
        LET r       == Val(route)
            pending == {i \in 1..Len(r) :
                           /\ IsStop(r[i])
                           /\ r[i].type # "location"
                           /\ r[i].status \in {"absent", "pending"}}
            current == {i \in 1..Len(r) : r[i].isCurrentStop}
        IN  current = IF pending = {} THEN {} ELSE {Min(pending)}

\* the location stop leads, and the flag is on stop 2, which was moved
\* ahead of stop 1
C1_Witness ==
    /\ route # Null
    /\ Len(Val(route)) = 3
    /\ Val(route)[1].type = "location"
    /\ Val(route)[2].originalStopNumber = 2
    /\ Val(route)[2].isCurrentStop
    /\ Val(route)[3].originalStopNumber = 1

\* C2: in every reachable route the originalStopNumbers of the delivery
\* stops are pairwise distinct, also when a mutation is requested, the
\* route changes, and the mutation is then confirmed.
C2_UniqueStopNumbers ==
    route # Null =>
        LET deliveryStops == DeliveryStops(Val(route))
        IN  \A i, j \in 1..Len(deliveryStops) :
                i # j => deliveryStops[i].originalStopNumber
                             # deliveryStops[j].originalStopNumber

ReorderStep ==
    \/ \E index \in 0..MaxStopNum : handleDrop(index)
    \/ \E index \in 0..MaxStopNum, direction \in {"up", "down"} : handleMove(index, direction)
    \/ handleResetOrder

\* C4: a step of handleDrop, handleMove or handleResetOrder leaves the
\* multiset of originalStopNumbers of the delivery stops and the location
\* stop as they were.
C4_ReorderKeepsStops ==
    [][ReorderStep =>
           /\ route' # Null
           /\ SameStopNumbers(DeliveryStops(Val(route)), DeliveryStops(Val(route')))
           /\ LocationStop(Val(route')) = LocationStop(Val(route))]_vars

\* the route was reordered by hand after the optimize request in flight
\* captured it: the request holds stops 1, 2 and the route holds 2, 1
C4_Witness ==
    /\ route # Null
    /\ Len(optimizing) = 1
    /\ StopNumbers(optimizing[1].stops) = <<1, 2>>
    /\ StopNumbers(DeliveryStops(Val(route))) = <<2, 1>>

OptimizeSettles(c) ==
    \/ \E response \in Responses(optimizing[c].stops) : OptimizeResolved(c, response)
    \/ OptimizeRejected(c)
    \/ GeolocationError(c)

\* C6: when an optimize request settles, either the delivery stops of the
\* route are a permutation of those it had before (the same multiset of
\* originalStopNumbers), or the route is unchanged and an error is
\* reported; an answer with missing, extra or repeated stops is not applied.
C6_PermutationOrError ==
    [][\A c \in 1..Len(optimizing) :
           OptimizeSettles(c) =>
               \/ /\ route # Null /\ route' # Null
                  /\ SameStopNumbers(DeliveryStops(Val(route)), DeliveryStops(Val(route')))
               \/ route' = route /\ error' # "null"]_vars

\* C7: an optimize answer that arrives after the route was changed or
\* cleared since its request was issued does not overwrite the route.
C7_StaleAnswerIgnored ==
    [][\A c \in 1..Len(optimizing) :
           \A response \in Responses(optimizing[c].stops) :
               /\ OptimizeResolved(c, response)
               /\ route = Null \/ DeliveryStops(Val(route)) # optimizing[c].stops
               => route' = route]_vars

\* a route mutator runs with an index outside the delivery stops
IllFormedStep ==
    LET deliveryStops == DeliveryStops(Val(route))
    IN  \/ \E index \in 0..MaxStopNum :
               /\ handleDrop(index)
               /\ ~InRange(deliveryStops, Val(draggedItemIndex))
                      \/ ~InRange(deliveryStops, index)
        \/ \E index \in 0..MaxStopNum, direction \in {"up", "down"} :
               handleMove(index, direction) /\ ~InRange(deliveryStops, index)
        \/ \E index \in 0..MaxStopNum, value \in Labels :
               handleFieldChange(index, value) /\ ~InRange(deliveryStops, index)

\* C8: a route mutator called with an out-of-range index leaves the route
\* exactly as it was and does not throw; no undefined element is put into
\* the route.
C8_IllFormedIsNoOp ==
    [][IllFormedStep =>
           /\ route' = route
           /\ ~threw'
           /\ \A i \in 1..Len(Val(route')) : IsStop(Val(route')[i])]_vars

\* the position in the route of the delivery stop at (0-based) index
RoutePosition(r, index) == index + 1 + (IF LocationStop(r) # Null THEN 1 ELSE 0)

\* C9: a field edit changes only that field of the stop at the given
\* index, and saving Edit Details changes only the edited fields of the
\* stop the dialog was opened on; the order, the other stops and the
\* current stop are unchanged, also when the route was reordered between
\* the opening and the save.
C9_OnlyOpenedStopChanges ==
    [][/\ \A index \in 0..MaxStopNum, value \in Labels :
              handleFieldChange(index, value) =>
                  /\ route' # Null
                  /\ Val(route') = [Val(route) EXCEPT
                                       ![RoutePosition(Val(route), index)].label = value]
       /\ handleSaveConstraints =>
              LET opened == Val(editingStop)
                  r      == Val(route)
              IN  /\ route' # Null
                  /\ Len(Val(route')) = Len(r)
                  /\ \A k \in 1..Len(r) :
                         Val(route')[k] =
                             IF r[k].originalStopNumber = opened.originalStopNumber
                                 THEN [r[k] EXCEPT !.isPriority = opened.isPriority]
                                 ELSE r[k]]_vars

\* C10: when several raw stops of a batch share an originalStopNumber, the
\* merged route has exactly one stop with that number, and its fields are
\* those of the first one in screenshot order, then in-screenshot order.
C10_FirstWins ==
    [][\A b \in 1..Len(extracting) :
           /\ ProcessRouteContinue(b)
           /\ \A i \in 1..Len(Val(extracting[b].allResults)) :
                  Val(extracting[b].allResults)[i].ok
           => LET allStops == FlatMapStops(Val(extracting[b].allResults))
                  first(n) == allStops[Min({i \in 1..Len(allStops) :
                                               allStops[i].originalStopNumber = n})]
              IN  allStops # <<>> =>
                      /\ route' # Null
                      /\ Range(StopNumbers(Val(route'))) = Range(StopNumbers(allStops))
                      /\ \A n \in Range(StopNumbers(allStops)) :
                             /\ CountOf(Val(route'), n) = 1
                             /\ \E k \in 1..Len(Val(route')) :
                                    /\ Val(route')[k].originalStopNumber = n
                                    /\ Val(route')[k].street = first(n).street
                                    /\ Val(route')[k].label = first(n).label]_vars

\* the extraction of a batch settled with two screenshots that show the
\* same stop number with different addresses; the merge is the next step
C10_Witness ==
    \E b \in 1..Len(extracting) :
        /\ extracting[b].allResults # Null
        /\ LET allStops == FlatMapStops(Val(extracting[b].allResults))
           IN  /\ \A i \in 1..Len(Val(extracting[b].allResults)) :
                      Val(extracting[b].allResults)[i].ok
               /\ \E i, j \in 1..Len(allStops) :
                      /\ i < j
                      /\ allStops[i].originalStopNumber = allStops[j].originalStopNumber
                      /\ allStops[i].street # allStops[j].street

\* the step that runs handleProcessRoute after the await for a batch whose
\* extraction calls all succeeded with at least one stop
IngestionSucceeds ==
    \E b \in 1..Len(extracting) :
        /\ ProcessRouteContinue(b)
        /\ \A i \in 1..Len(Val(extracting[b].allResults)) :
               Val(extracting[b].allResults)[i].ok
        /\ FlatMapStops(Val(extracting[b].allResults)) # <<>>

\* C11: after a successful ingestion the route is strictly ascending by
\* originalStopNumber, has no location stop, and its current stop is the
\* one with the smallest originalStopNumber.
C11_SortedAfterIngestion ==
    [][IngestionSucceeds =>
           /\ route' # Null
           /\ LET r == Val(route')
              IN  /\ Len(r) >= 1
                  /\ \A i \in 1..(Len(r) - 1) :
                         r[i].originalStopNumber < r[i + 1].originalStopNumber
                  /\ \A i \in 1..Len(r) : r[i].type = "delivery"
                  /\ \A i \in 1..Len(r) :
                         r[i].isCurrentStop <=>
                             \A k \in 1..Len(r) :
                                 r[i].originalStopNumber <= r[k].originalStopNumber]_vars

\* a route of two stops just ingested from two screenshots, never saved or
\* loaded: stop 1 leads and is the current stop
C11_Witness ==
    /\ route # Null
    /\ savedRoute = Null
    /\ screenshotFiles = 2
    /\ extracting = <<>>
    /\ StopNumbers(Val(route)) = <<1, 2>>
    /\ Val(route)[1].isCurrentStop
    /\ ~Val(route)[2].isCurrentStop

\* C12: the merge starts only after every extraction call of the batch has
\* settled, and the route it sets is the merge of the results taken in
\* dispatch order, whatever the order in which the calls completed.
C12_DispatchOrderOnly ==
    [][\A b \in 1..Len(extracting) :
           /\ ProcessRouteContinue(b)
           /\ route' # route
           => /\ \A i \in 1..extracting[b].files : extracting[b].calls[i] # Null
              /\ LET inDispatchOrder ==
                         [i \in 1..extracting[b].files |-> Val(extracting[b].calls[i])]
                 IN  route' = updateRouteAndCurrentStop(route,
                                  Some(MergeStops(inDispatchOrder))).route]_vars

\* the second screenshot's call completed before the first one's, both
\* show stop 1 with different addresses; the merge is the next step
C12_Witness ==
    \E b \in 1..Len(extracting) :
        /\ extracting[b].allResults # Null
        /\ extracting[b].completed = <<2, 1>>
        /\ Val(extracting[b].calls[1]).ok /\ Val(extracting[b].calls[2]).ok
        /\ Val(extracting[b].calls[1]).stops # <<>>
        /\ Val(extracting[b].calls[2]).stops # <<>>
        /\ StopNumbers(Val(extracting[b].calls[1]).stops)
               = StopNumbers(Val(extracting[b].calls[2]).stops)
        /\ Val(extracting[b].calls[1]).stops # Val(extracting[b].calls[2]).stops

\* the step that runs handleProcessRoute after the await for a batch with a
\* failed extraction call or with no stop at all
IngestionFails ==
    \E b \in 1..Len(extracting) :
        /\ ProcessRouteContinue(b)
        /\ \/ \E i \in 1..Len(Val(extracting[b].allResults)) :
                  ~Val(extracting[b].allResults)[i].ok
           \/ FlatMapStops(Val(extracting[b].allResults)) = <<>>

\* C13: when an extraction call of a batch fails, or the batch yields no
\* stop, no route is set (the route stays null), an error is set, and no
\* stop of the successful calls of the batch is retained.
C13_FailedBatchSetsNoRoute ==
    [][IngestionFails => route' = Null /\ error' # "null"]_vars

\* ceil(n / l)
CeilDiv(n, l) == (n + l - 1) \div l

\* the number of links the claim gives for n delivery stops and limit l
LinkCount(n, l) == IF n = 0 THEN 0 ELSE IF n <= l THEN 1 ELSE CeilDiv(n, l)

\* C14: for N delivery stops (the location stop not counted) and limit L
\* the link generator returns 0 links when N = 0, 1 link when 1 <= N <= L
\* and ceil(N / L) links when N > L; web (L = 20) and mobile (L = 10).
C14_LinkCount ==
    route # Null /\ ~crashed =>
        LET n == Len(DeliveryStops(Val(route)))
        IN  /\ Len(googleMapsLinks) = LinkCount(n, GOOGLE_MAPS_WAYPOINT_LIMIT)
            /\ Len(generateGoogleMapsLinksMobile(Val(route)))
                   = LinkCount(n, MOBILE_GOOGLE_MAPS_WAYPOINT_LIMIT)

\* a route of 25 delivery stops behind a location stop, after the first
\* stop of 26 was deleted: 2 links on the web, 3 on mobile
C14_Witness ==
    /\ route # Null
    /\ LocationStop(Val(route)) # Null
    /\ Len(DeliveryStops(Val(route))) = 25
    /\ DeliveryStops(Val(route))[1].originalStopNumber = 2
    /\ Len(googleMapsLinks) = 2
    /\ Len(generateGoogleMapsLinksMobile(Val(route))) = 3

\* the link is a directions link from the first to the last of chunk through
\* the stops in between, in order
IsDirectionsThrough(link, chunk) ==
    /\ link.url.path = "maps/dir"
    /\ link.url.origin = encodeURIComponent(chunk[1].street)
    /\ link.url.destination = encodeURIComponent(chunk[Len(chunk)].street)
    /\ link.url.waypoints =
           [i \in 1..(Len(chunk) - 2) |-> encodeURIComponent(chunk[i + 1].street)]

\* C15: when N > L the k-th link is labelled with the 1-based index range
\* of its chunk in the delivery sequence; the ranges are contiguous, start
\* at 1, end at N and hold between 1 and L stops each, and the link leads
\* from the first stop of its range to the last through the stops in
\* between in route order, the location stop left out.
C15_ChunksPartitionRoute ==
    LET deliveryStops == DeliveryStops(Val(route))
        n == Len(deliveryStops)
        links == googleMapsLinks
    IN  route # Null /\ ~crashed /\ n > GOOGLE_MAPS_WAYPOINT_LIMIT =>
            /\ Len(links) >= 2
            /\ links[1].label.from = 1
            /\ links[Len(links)].label.to = n
            /\ \A k \in 1..(Len(links) - 1) :
                   links[k + 1].label.from = links[k].label.to + 1
            /\ \A k \in 1..Len(links) :
                   LET from == links[k].label.from
                       to   == links[k].label.to
                   IN  /\ links[k].label = RangeLabel(from, to)
                       /\ 1 <= to - from + 1
                       /\ to - from + 1 <= GOOGLE_MAPS_WAYPOINT_LIMIT
                       /\ IsDirectionsThrough(links[k], SubSeq(deliveryStops, from, to))

\* 41 delivery stops behind a location stop, the first two swapped: three
\* links, for stops 1 - 20, 21 - 40 and 41 - 41
C15_Witness ==
    /\ route # Null
    /\ LocationStop(Val(route)) # Null
    /\ Len(DeliveryStops(Val(route))) = 41
    /\ DeliveryStops(Val(route))[1].originalStopNumber = 2
    /\ Len(googleMapsLinks) = 3
    /\ googleMapsLinks[3].label = RangeLabel(41, 41)

\* C16: for 1..L delivery stops the single link is a search link for the
\* address when there is one stop, and otherwise a directions link from
\* the first delivery stop to the last through the stops in between, in
\* route order.
C16_SingleLink ==
    LET deliveryStops == DeliveryStops(Val(route))
        n == Len(deliveryStops)
    IN  route # Null /\ ~crashed /\ 1 <= n /\ n <= GOOGLE_MAPS_WAYPOINT_LIMIT =>
            /\ Len(googleMapsLinks) = 1
            /\ IF n = 1
                   THEN googleMapsLinks[1].url =
                            [path |-> "maps/search",
                             query |-> encodeURIComponent(deliveryStops[1].street)]
                   ELSE IsDirectionsThrough(googleMapsLinks[1], deliveryStops)

\* five delivery stops, the first two swapped: one directions link from
\* stop 2 to stop 5 with three waypoints
C16_Witness ==
    /\ route # Null
    /\ StopNumbers(DeliveryStops(Val(route))) = <<2, 1, 3, 4, 5>>
    /\ Len(googleMapsLinks) = 1
    /\ googleMapsLinks[1].url.path = "maps/dir"
    /\ Len(googleMapsLinks[1].url.waypoints) = 3

\* how many elements of stops equal s
Occurrences(stops, s) == Cardinality({i \in 1..Len(stops) : stops[i] = s})

\* the same stops, each as many times, whatever the order
SameStops(a, b) ==
    \A s \in Range(a) \cup Range(b) : Occurrences(a, s) = Occurrences(b, s)

\* after is before reset to its original order
IsResetOf(before, after) ==
    LET deliveryStops == DeliveryStops(after)
    IN  /\ \A i, j \in 1..Len(deliveryStops) :
               i < j => deliveryStops[i].originalStopNumber
                            <= deliveryStops[j].originalStopNumber
        /\ SameStops(OtherFields(DeliveryStops(before)), OtherFields(deliveryStops))
        /\ Len(after) = Len(before)
        /\ LocationStop(before) # Null =>
               OtherFields(<<after[1]>>) = OtherFields(<<Val(LocationStop(before))>>)
        /\ LocationStop(before) = Null => LocationStop(after) = Null

\* C17: a step of handleResetOrder leaves the delivery stops in ascending
\* originalStopNumber order, every stop with the fields and the status it
\* had, and the location stop, if any, first; a second reset changes
\* nothing.  The mobile reset of the same route does the same.
C17_ResetRestoresOrder ==
    [][handleResetOrder =>
           /\ route' # Null
           /\ ~threw'
           /\ IsResetOf(Val(route), Val(route'))
           /\ ResetOrder(Val(route')) = [route |-> route', threw |-> FALSE]
           /\ IsResetOf(Val(route), ResetOrderMobile(Val(route)))
           /\ ResetOrderMobile(ResetOrderMobile(Val(route)))
                  = ResetOrderMobile(Val(route))]_vars

\* a route in its original order behind a location stop, with a label
\* edited on stop 2, while the stop to delete is none: reached by a reset
\* after an optimize with a start location put stop 2 first
C17_Witness ==
    /\ route # Null
    /\ Len(Val(route)) = 3
    /\ Val(route)[1].type = "location"
    /\ StopNumbers(DeliveryStops(Val(route))) = <<1, 2>>
    /\ Val(route)[3].label = "note"

\* performOptimization(location) set the route from the provider's answer
OptimizedFromLocation ==
    \E c \in 1..Len(optimizing) :
        /\ optimizing[c].location = "got"
        /\ \E response \in Responses(optimizing[c].stops) : OptimizeResolved(c, response)

C19_SaveThenLoad ==
    [][handleSaveRoute =>
           LET loaded == LoadRoute(Null, Val(savedRoute'))
           IN  /\ loaded.ok
               /\ loaded.route = route]_vars

\* the elements of a route: objects with the fields of a RouteStop
IsRouteStop(s) == s \notin {Hole, Undefined, JsonNull, EmptyObject}

\* the stored text is JSON for a non-empty array of stops
ValidRouteText(text) ==
    /\ text.kind = "json"
    /\ text.isArray
    /\ Len(text.items) > 0
    /\ \A i \in 1..Len(text.items) : IsRouteStop(text.items[i])

\* C20: a step of handleLoadRoute on a stored text that is no JSON or no
\* valid route sets the error, removes the stored text, sets hasSavedRoute
\* to false and leaves the route as it was; the mobile handleLoadRoute
\* rejects the text as well.
C20_CorruptLoadClears ==
    [][handleLoadRoute /\ ~ValidRouteText(Val(savedRoute)) =>
           /\ ~LoadRouteMobile(route, Val(savedRoute)).ok
           /\ error' = "error"
           /\ savedRoute' = Null
           /\ ~hasSavedRoute'
           /\ route' = route]_vars

\* C24: on a step of handleProcessRoute that merges a batch, the merge of
\* the merged stops written twice in a row is the merged stops again: the
\* same stops, hence the same set of originalStopNumbers, and the merged
\* stops are the route that is set.
C24_MergeIdempotent ==
    [][\A b \in 1..Len(extracting) :
           /\ ProcessRouteContinue(b)
           /\ \A i \in 1..Len(Val(extracting[b].allResults)) :
                  Val(extracting[b].allResults)[i].ok
           => LET allResults == Val(extracting[b].allResults)
                  merged     == MergeStops(allResults)
                  twice      == <<[allResults[1] EXCEPT !.stops = merged \o merged]>>
              IN  /\ MergeStops(twice) = merged
                  /\ Range(StopNumbers(MergeStops(twice))) = Range(StopNumbers(merged))
                  /\ merged # <<>> =>
                         /\ route' # Null
                         /\ OtherFields(Val(route')) = OtherFields(merged)]_vars

\* a batch of two screenshots settled with the same stop number twice and
\* different addresses; the merge is the next step
C24_Witness ==
    \E b \in 1..Len(extracting) :
        /\ extracting[b].allResults # Null
        /\ LET allStops == FlatMapStops(Val(extracting[b].allResults))
           IN  /\ Len(allStops) = 2
               /\ allStops[1].originalStopNumber = allStops[2].originalStopNumber
               /\ allStops[1].street = "B St"
               /\ allStops[2].street = "A St"

\* C25: while the delete dialog is open, the stop at stopToDeleteIndex, the
\* one the dialog names and handleConfirmDelete removes, stays the stop it
\* was when the delete was requested, whatever sets the route meanwhile.
C25_DialogKeepsItsStop ==
    [][/\ stopToDeleteIndex # Null
       /\ stopToDeleteIndex' = stopToDeleteIndex
       /\ ~crashed
       => /\ route' # Null
          /\ InRange(DeliveryStops(Val(route')), Val(stopToDeleteIndex))
          /\ OtherFields(DeliveryStops(Val(route')))[Val(stopToDeleteIndex) + 1]
                 = OtherFields(DeliveryStops(Val(route)))[Val(stopToDeleteIndex) + 1]]_vars

\* C27: whenever an extraction batch is in flight, appStatus is
\* 'processing' and the route is null, and at most one batch is in flight.
C27_BatchMeansProcessing ==
    extracting # <<>> =>
        /\ appStatus = "processing"
        /\ route = Null
        /\ Len(extracting) = 1

\* C29: for a waypoint limit of 10 and of 20 the web and the mobile link
\* generator return the same links for the route: as many, with the same
\* labels and the same urls.
C29_SameLinks ==
    route # Null =>
        \A limit \in {MOBILE_GOOGLE_MAPS_WAYPOINT_LIMIT, GOOGLE_MAPS_WAYPOINT_LIMIT} :
            WebLinks(Val(route), limit) = MobileLinks(Val(route), limit)


(***************************************************************************)
(* C21: while the app is alive, a traffic polling timer is active exactly  *)
(* when the route holds at least one delivery stop, and there is never     *)
(* more than one timer: it is started when the route becomes non-empty and *)
(* cleared as soon as the route becomes empty or null.                     *)
(***************************************************************************)
C21_OneTimerWhileStops ==
    /\ intervals \in {0, 1}
    /\ ~crashed => (intervals = 1 <=> EffectStops(route) > 0)

\* a stop was deleted from a route of two: the effect ran again, cleared
\* the timer of the old route and started one for the new route
C21_Witness ==
    /\ ~crashed
    /\ EffectStops(route) = 1
    /\ summary # Null
    /\ Val(summary).totalStops = 2
    /\ intervals = 1

(***************************************************************************)
(* C22: a failed summary call and a failed traffic call change neither the *)
(* route nor the error nor the status.  The failed summary call leaves     *)
(* totalDistance = totalTime = "N/A" with totalStops the number of         *)
(* delivery stops it was issued for (or, when its block code reruns the    *)
(* effect on a route without delivery stops, what that run sets); the      *)
(* failed traffic call leaves status "Unknown" and the timer running.      *)
(***************************************************************************)
C22_FailedCallsFallBack ==
    [][/\ \A c \in 1..Len(summaryCalls) :
              SummarySettled(c, FALSE)
              => LET call == summaryCalls[c]
                 IN  /\ route' = route
                     /\ error' = error
                     /\ appStatus' = appStatus
                     /\ call.stops > 0
                     /\ \/ /\ summary' # Null
                           /\ Val(summary').totalStops = call.stops
                           /\ Val(summary').totalDistance = "N/A"
                           /\ Val(summary').totalTime = "N/A"
                        \/ /\ call.existingBlockCode # BlockCodeOf(summary)
                           /\ EffectStops(route) = 0
                           /\ route = Null => summary' = Null
                           /\ route # Null => /\ summary' # Null
                                              /\ Val(summary').totalStops = 0
                                              /\ Val(summary').totalDistance = "N/A"
                                              /\ Val(summary').totalTime = "N/A"
       /\ \A status \in TrafficStatuses :
              TrafficSettled(FALSE, status)
              => /\ route' = route
                 /\ error' = error
                 /\ appStatus' = appStatus
                 /\ trafficInfo' = Some([status |-> "Unknown"])
                 /\ intervals' = intervals]_vars

\* the summary call and the first traffic call of a route of two stops
\* failed, and the timer has fired again
C22_Witness ==
    /\ EffectStops(route) = 2
    /\ error = "null"
    /\ summary = SummaryOf(2, "N/A", NoCode)
    /\ trafficInfo = Some([status |-> "Unknown"])
    /\ intervals = 1
    /\ trafficCalls = 1

(***************************************************************************)
(* C23: an ingestion that sets the route sets as block code of the summary *)
(* the routeBlockCode of the first result, in dispatch order, that reports *)
(* a non-empty one, and no block code when no result reports one.          *)
(***************************************************************************)
C23_FirstBlockCode ==
    [][\A b \in 1..Len(extracting) :
           /\ ProcessRouteContinue(b)
           /\ route' # route
           => LET allResults == Val(extracting[b].allResults)
                  reporting  == {i \in 1..Len(allResults) : allResults[i].routeBlockCode # ""}
              IN  /\ summary' # Null
                  /\ IF reporting = {}
                         THEN Val(summary').routeBlockCode = NoCode
                         ELSE \E i \in reporting :
                                  /\ \A k \in reporting : i <= k
                                  /\ Val(summary').routeBlockCode = allResults[i].routeBlockCode]_vars

\* two screenshots gave a route of two stops whose block code is the second
\* of the two codes: the first screenshot that reported a code reported it
C23_Witness ==
    /\ EffectStops(route) = 2
    /\ summary # Null
    /\ Val(summary).routeBlockCode = "DAB5"
    /\ Val(summary).totalDistance = "..."

(***************************************************************************)
(* C26: once no summary call is in flight, summary is null exactly when    *)
(* route is null, and otherwise summary.totalStops is the number of        *)
(* delivery stops of the current route.                                    *)
(***************************************************************************)
C26_SummaryMatchesRoute ==
    Ready /\ summaryCalls = <<>>
    => /\ summary = Null <=> route = Null
       /\ route # Null => Val(summary).totalStops = EffectStops(route)

(***************************************************************************)
(* C30: the route counter of a Free user starts at 0 and never exceeds the *)
(* limit of 5; Process Route is refused to a Free user whose counter has   *)
(* reached the limit; every ingestion started by a Free user that sets a   *)
(* non-empty route adds exactly 1 to the counter, and failed or empty      *)
(* ingestions and ingestions started by a Pro user leave it unchanged.     *)
(***************************************************************************)
C30_CounterStep ==
    [][/\ routeCount' <= FreeRouteLimit
       /\ handleProcessRoute /\ user.tier = "Free" /\ routeCount >= FreeRouteLimit
          => extracting' = extracting /\ appStatus' = appStatus
       /\ \A b \in 1..Len(extracting) :
              ProcessRouteContinue(b)
              => routeCount' = IF route' # route /\ extracting[b].user.tier = "Free"
                                   THEN routeCount + 1
                                   ELSE routeCount]_vars

(***************************************************************************)
(* C28: when every call that was issued settles, a status other than       *)
(* 'idle' is always followed by the status 'idle'.                         *)
(***************************************************************************)
C28_EventuallyIdle == (appStatus # "idle") ~> (appStatus = "idle")
====
